---- MODULE Spec2Model ----
(***************************************************************************)
(* A model of the duty-schedule allocation engine: the Scheduler class of  *)
(* src/src/app/scheduler.py (completeBids, setUpProblem, solveProblem,     *)
(* cleanAllocations).                                                      *)
(*                                                                         *)
(* Identifiers (employee, duty, shift and week names) are Python strings;  *)
(* they are modelled as sequences of one-character strings so that the     *)
(* string conversions of the code (the variable names PuLP builds, split,  *)
(* strip and replace in cleanAllocations) are computed character by        *)
(* character.  Weights are floats with integral values (0.0, 1.0, 2.0);    *)
(* they are modelled as naturals.  A dict is a sequence of key/value       *)
(* entries with distinct keys (bids: insertion order is iteration order)   *)
(* or a function (allocations, whose order no operation depends on).       *)
(***************************************************************************)
EXTENDS Integers, Sequences, FiniteSets, TLC

VARIABLES
    employees,    \* Scheduler.employees: list of identifiers
    duties,       \* Scheduler.duties
    shifts,       \* Scheduler.shifts
    rotations,    \* Scheduler.rotations
    bids,         \* Scheduler.bids: dict (employee, duty, shift) -> weight
    prob,         \* Scheduler.prob: None or the PuLP problem
    allocations,  \* Scheduler.allocations: dict
    lastOp,       \* history: the method called last
    raised,       \* history: the exception the last call raised, if any
    stage,        \* history: progress along completeBids, setUpProblem,
                  \* solveProblem, cleanAllocations called once each in
                  \* that order, none of them raising ("off" otherwise)
    solves,       \* history: number of solver invocations so far
    result,       \* main.createAllocations: whether it returned, and what
    saved         \* main.main, option 2: whether the allocations CSV
                  \* was written

vars == <<employees, duties, shifts, rotations, bids, prob, allocations,
          lastOp, raised, stage, solves, result, saved>>

(***************************************************************************)
(* Bounds of the model.                                                    *)
(***************************************************************************)
MaxPairs == 2          \* |employees| * |duties| in the scheduling runs
MaxWeight == 2         \* largest bid weight
MaxBidEmployees == 2   \* |employees| in the bid validation runs
MaxBidDuties == 2      \* |duties| in the bid validation runs
MaxBidPairs == 4       \* |employees| * |duties| in the bid validation runs
MaxBids == 6           \* entries of the caller's bids dict in those runs
MaxSolves == 2         \* solveProblem calls on a Scheduler used directly
MaxFreePairs == 1      \* |employees| * |duties| of a Scheduler used directly
MaxVariables == 6      \* decision variables of a problem built directly
MaxShiftNames == 4     \* shift names the shifts list is drawn from
MaxDbEmployees == 2    \* rows of the employee table
MaxDbDuties == 2       \* rows of the duty table
MaxChoices == 6        \* random.choice calls of one createRandomBids call

(***************************************************************************)
(* Strings.                                                                *)
(***************************************************************************)
Min(S) == CHOOSE x \in S : \A y \in S : x <= y
Max(S) == CHOOSE x \in S : \A y \in S : x >= y

\* str.replace(old, new) for one-character old and new
Replace(s, old, new) == [i \in DOMAIN s |-> IF s[i] = old THEN new ELSE s[i]]

\* str.strip(chars): removes leading and trailing characters that are in chars
RECURSIVE LStrip(_, _)
LStrip(s, chars) ==
    IF s # <<>> /\ Head(s) \in chars THEN LStrip(Tail(s), chars) ELSE s

RECURSIVE RStrip(_, _)
RStrip(s, chars) ==
    IF s # <<>> /\ s[Len(s)] \in chars
    THEN RStrip(SubSeq(s, 1, Len(s) - 1), chars) ELSE s

Strip(s, chars) == RStrip(LStrip(s, chars), chars)

\* str.split(sep): the pieces between the non-overlapping occurrences of sep,
\* found from the left
RECURSIVE Split(_, _)
Split(s, sep) ==
    LET n == Len(sep)
        hits == {i \in 1..(Len(s) - n + 1) : SubSeq(s, i, i + n - 1) = sep}
    IN  IF hits = {} THEN <<s>>
        ELSE LET i == Min(hits)
             IN  <<SubSeq(s, 1, i - 1)>> \o Split(SubSeq(s, i + n, Len(s)), sep)

\* repr of a str: single quotes, unless the string holds a single quote and
\* no double quote.  (Backslash escapes are not modelled; no identifier of
\* the model holds a backslash or both kinds of quote.)
Repr(s) ==
    LET q == IF \E i \in DOMAIN s : s[i] = "'" THEN "\"" ELSE "'"
    IN  <<q>> \o s \o <<q>>

\* str of a 4-tuple of str: "('a', 'b', 'c', 'd')"
TupleStr(t) ==
    <<"(">> \o Repr(t[1]) \o <<",", " ">> \o Repr(t[2]) \o <<",", " ">>
            \o Repr(t[3]) \o <<",", " ">> \o Repr(t[4]) \o <<")">>

Early == <<"E", "a", "r", "l", "y">>
Late == <<"L", "a", "t", "e">>
Night == <<"N", "i", "g", "h", "t">>

(***************************************************************************)
(* The bids dict.                                                          *)
(***************************************************************************)
Range(s) == {s[i] : i \in DOMAIN s}

BidKeys(b) == {b[i].key : i \in DOMAIN b}

\* b[k] for a key k of the dict
BidValue(b, k) == b[CHOOSE i \in DOMAIN b : b[i].key = k].value

Entry(k, v) == [key |-> k, value |-> v]

\* an empty dict
EmptyDict == [k \in {} |-> 0]

NoError == [kind |-> "none", what |-> "none", key |-> <<>>, report |-> <<>>]

(***************************************************************************)
(* completeBids                                                            *)
(***************************************************************************)
\* lines 134-136: the first key of the dict that names an unknown employee,
\* duty or shift
InvalidBidIndexesNoShiftCheck ==
    {i \in DOMAIN bids :
        \/ bids[i].key[1] \notin Range(employees)
        \/ bids[i].key[2] \notin Range(duties)}

InvalidBidIndexes ==
    {i \in DOMAIN bids :
        \/ bids[i].key[1] \notin Range(employees)
        \/ bids[i].key[2] \notin Range(duties)
        \/ bids[i].key[3] \notin Range(shifts)}

\* lines 139-150: the counters, for an employee of the employees list
BidCount(e) == Cardinality({i \in DOMAIN bids : bids[i].key[1] = e})

ShiftBidCount(e, sh) ==
    Cardinality({i \in DOMAIN bids : bids[i].key[1] = e /\ bids[i].key[3] = sh})

MinBids == 3

\* lines 153-156
EmployeesWithNotEnoughBidsOffByOne ==
    SelectSeq(employees, LAMBDA e : BidCount(e) <= MinBids)

EmployeesWithNotEnoughBids ==
    SelectSeq(employees, LAMBDA e : BidCount(e) < MinBids)

EmployeesMissingEarlyBid ==
    SelectSeq(employees, LAMBDA e : ShiftBidCount(e, Early) < 1)

EmployeesMissingLateBid ==
    SelectSeq(employees, LAMBDA e : ShiftBidCount(e, Late) < 1)

\* the third member of the shifts list instead of the name "Night"
EmployeesMissingNightBidByPosition ==
    IF Len(shifts) < 3 THEN <<>>
    ELSE SelectSeq(employees, LAMBDA e : ShiftBidCount(e, shifts[3]) < 1)

EmployeesMissingNightBid ==
    SelectSeq(employees, LAMBDA e : ShiftBidCount(e, Night) < 1)

\* lines 157-166: the dict of the non-empty lists, keyed by category
Categories == {"less than 3 bids", "without an Early bid",
               "without a Late bid", "without a Night bid"}

CategoryList(c) ==
    CASE c = "less than 3 bids" -> EmployeesWithNotEnoughBids
      [] c = "without an Early bid" -> EmployeesMissingEarlyBid
      [] c = "without a Late bid" -> EmployeesMissingLateBid
      [] c = "without a Night bid" -> EmployeesMissingNightBid

\* the coverage checks skipped
EmployeesWithIncorrectBidsNoCheck == [c \in {} |-> <<>>]

EmployeesWithIncorrectBidsFailFast ==
    LET found == {c \in Categories : CategoryList(c) # <<>>}
        first == IF "less than 3 bids" \in found THEN "less than 3 bids"
                 ELSE IF "without an Early bid" \in found
                 THEN "without an Early bid"
                 ELSE IF "without a Late bid" \in found
                 THEN "without a Late bid" ELSE "without a Night bid"
    IN  [c \in found \cap {first} |-> CategoryList(c)]

EmployeesWithIncorrectBids ==
    [c \in {c \in Categories : CategoryList(c) # <<>>} |-> CategoryList(c)]

\* itertools.product(es, ds, ss): the triples, the first component slowest
Product(es, ds, ss) ==
    LET nd == Len(ds)
        ns == Len(ss)
    IN  [i \in 1..(Len(es) * nd * ns) |->
            <<es[((i - 1) \div (nd * ns)) + 1],
              ds[(((i - 1) \div ns) % nd) + 1],
              ss[((i - 1) % ns) + 1]>>]

\* line 172
AllCombinations == Product(employees, duties, shifts)

\* lines 173-175: the no-bids appended, in product order
\* every combination appended, also those already in the dict
MissingNoBidsNoMembershipTest ==
    [i \in DOMAIN AllCombinations |-> Entry(AllCombinations[i], 0)]

\* the added entries get the weight 1.0
MissingNoBidsWeightOne ==
    LET missing == SelectSeq(AllCombinations, LAMBDA k : k \notin BidKeys(bids))
    IN  [i \in DOMAIN missing |-> Entry(missing[i], 1)]

MissingNoBidsFirstOnly ==
    LET missing == SelectSeq(AllCombinations, LAMBDA k : k \notin BidKeys(bids))
    IN  [i \in DOMAIN missing \cap {1} |-> Entry(missing[i], 0)]

MissingNoBids ==
    LET missing == SelectSeq(AllCombinations, LAMBDA k : k \notin BidKeys(bids))
    IN  [i \in DOMAIN missing |-> Entry(missing[i], 0)]

CompleteBidsCompletesFirst ==
    /\ lastOp' = "completeBids"
    /\ bids' = bids \o MissingNoBids
    /\ raised' =
         IF InvalidBidIndexes # {}
         THEN [kind |-> "ValueError", what |-> "invalid keys",
               key |-> bids[Min(InvalidBidIndexes)].key, report |-> <<>>]
         ELSE IF DOMAIN EmployeesWithIncorrectBids # {}
         THEN [kind |-> "ValueError", what |-> "incorrect bids",
               key |-> <<>>, report |-> EmployeesWithIncorrectBids]
         ELSE NoError
    /\ stage' = IF stage = "new" /\ raised'.kind = "none"
                THEN "completed" ELSE "off"
    /\ UNCHANGED <<employees, duties, shifts, rotations, prob, allocations,
                   solves, result, saved>>

CompleteBids ==
    /\ lastOp' = "completeBids"
    /\ IF InvalidBidIndexes # {}
       THEN /\ raised' = [kind |-> "ValueError", what |-> "invalid keys",
                          key |-> bids[Min(InvalidBidIndexes)].key,
                          report |-> <<>>]
            /\ bids' = bids
       ELSE IF DOMAIN EmployeesWithIncorrectBids # {}
       THEN /\ raised' = [kind |-> "ValueError", what |-> "incorrect bids",
                          key |-> <<>>,
                          report |-> EmployeesWithIncorrectBids]
            /\ bids' = bids
       ELSE /\ raised' = NoError
            /\ bids' = bids \o MissingNoBids
    /\ stage' = IF stage = "new" /\ raised'.kind = "none"
                THEN "completed" ELSE "off"
    /\ UNCHANGED <<employees, duties, shifts, rotations, prob, allocations,
                   solves, result, saved>>

(***************************************************************************)
(* setUpProblem                                                            *)
(***************************************************************************)
\* the characters PuLP replaces by "_" in the name of a variable
IllegalChars == {"-", "+", "[", "]", " ", ">", "/"}

Translate(s) == [i \in DOMAIN s |-> IF s[i] \in IllegalChars THEN "_" ELSE s[i]]

\* lines 197-202: LpVariable.dicts("Allocation", keys) names the variable of
\* key k "Allocation_" + str(k), illegal characters replaced
VarName(k) ==
    Translate(<<"A", "l", "l", "o", "c", "a", "t", "i", "o", "n", "_">>
              \o TupleStr(k))

\* lines 197-202: the keys of the decision variables
Variables ==
    Range(employees) \X Range(duties) \X Range(shifts) \X Range(rotations)

\* lines 208-212: self.bids[(e, d, sh)] is looked up for every variable
BidLookupFails ==
    /\ rotations # <<>>
    /\ \E k \in Range(AllCombinations) : k \notin BidKeys(bids)

\* lines 208-212: the coefficient of each variable in the objective
Objective == [v \in Variables |-> BidValue(bids, <<v[1], v[2], v[3]>>)]

\* a constraint: the sum of the variables vars is = rhs (EQ) or <= rhs (LE)
\* lines 217-225
EmployeeRotationConstraintsLastWeekOnly ==
    {[vars |-> {<<e, d, sh, r>> : d \in Range(duties), sh \in Range(shifts)},
      sense |-> "EQ", rhs |-> 1] :
        e \in Range(employees),
        r \in {rotations[i] : i \in DOMAIN rotations \cap {Len(rotations)}}}

EmployeeRotationConstraints ==
    {[vars |-> {<<e, d, sh, r>> : d \in Range(duties), sh \in Range(shifts)},
      sense |-> "EQ", rhs |-> 1] :
        e \in Range(employees), r \in Range(rotations)}

\* lines 234-242
EmployeeShiftConstraintsFirstEmployeeOnly ==
    {[vars |-> {<<e, d, sh, r>> : d \in Range(duties), r \in Range(rotations)},
      sense |-> "EQ", rhs |-> 1] :
        e \in {employees[i] : i \in DOMAIN employees \cap {1}},
        sh \in Range(shifts)}

\* at most one instead of exactly one
EmployeeShiftConstraintsAtMostOne ==
    {[vars |-> {<<e, d, sh, r>> : d \in Range(duties), r \in Range(rotations)},
      sense |-> "LE", rhs |-> 1] :
        e \in Range(employees), sh \in Range(shifts)}

EmployeeShiftConstraintsLastShiftOnly ==
    {[vars |-> {<<e, d, sh, r>> : d \in Range(duties), r \in Range(rotations)},
      sense |-> "EQ", rhs |-> 1] :
        e \in Range(employees),
        sh \in {shifts[i] : i \in DOMAIN shifts \cap {Len(shifts)}}}

EmployeeShiftConstraints ==
    {[vars |-> {<<e, d, sh, r>> : d \in Range(duties), r \in Range(rotations)},
      sense |-> "EQ", rhs |-> 1] :
        e \in Range(employees), sh \in Range(shifts)}

\* lines 245-254
DutyShiftRotationConstraintsNotAdded == {}

DutyShiftRotationConstraintsLastWeekOnly ==
    {[vars |-> {<<e, d, sh, r>> : e \in Range(employees)},
      sense |-> "LE", rhs |-> 1] :
        d \in Range(duties), sh \in Range(shifts),
        r \in {rotations[i] : i \in DOMAIN rotations \cap {Len(rotations)}}}

DutyShiftRotationConstraints ==
    {[vars |-> {<<e, d, sh, r>> : e \in Range(employees)},
      sense |-> "LE", rhs |-> 1] :
        d \in Range(duties), sh \in Range(shifts), r \in Range(rotations)}

\* line 205: a new LpProblem, nothing added to it yet
EmptyProblem ==
    [set |-> TRUE, status |-> "NotSolved", variables |-> {},
     objective |-> EmptyDict, constraints |-> {}, values |-> {}]

Raise(kind) == [kind |-> kind, what |-> "none", key |-> <<>>, report |-> <<>>]

SetUpProblem ==
    /\ lastOp' = "setUpProblem"
    /\ IF BidLookupFails
       THEN \* KeyError at line 208, after self.prob was assigned at line 205
            /\ prob' = EmptyProblem
            /\ raised' = Raise("KeyError")
       ELSE /\ prob' = [set |-> TRUE, status |-> "NotSolved",
                        variables |-> Variables,
                        objective |-> Objective,
                        constraints |-> EmployeeRotationConstraints
                                        \cup EmployeeShiftConstraints
                                        \cup DutyShiftRotationConstraints,
                        values |-> {}]
            /\ raised' = NoError
    /\ stage' = IF stage = "completed" /\ raised'.kind = "none"
                THEN "setup" ELSE "off"
    /\ UNCHANGED <<employees, duties, shifts, rotations, bids, allocations,
                   solves, result, saved>>

(***************************************************************************)
(* The solver behind prob.solve(): given the binary variables, the         *)
(* objective and the constraints of p it returns an assignment (the set of *)
(* the variables at 1) that satisfies every constraint and maximises the   *)
(* objective, or reports that there is none.                               *)
(***************************************************************************)
Satisfies(x, c) ==
    LET n == Cardinality(c.vars \cap x)
    IN  IF c.sense = "EQ" THEN n = c.rhs ELSE n <= c.rhs

\* the constraints of p that only mention variables of B
LocalConstraints(p, B) == {c \in p.constraints : c.vars \subseteq B}

\* the unions of one member of choices[b] for every b of Bs
RECURSIVE Combine(_, _)
Combine(choices, Bs) ==
    IF Bs = {} THEN {{}}
    ELSE LET b == CHOOSE b \in Bs : TRUE
         IN  {x \cup y : x \in choices[b], y \in Combine(choices, Bs \ {b})}

EmployeesOf(p) == {v[1] : v \in p.variables}
WeeksOf(p) == {v[4] : v \in p.variables}

\* The assignments that satisfy every constraint of p.  The search goes
\* block by block (the variables of one employee in one week, then of one
\* employee, then all), discarding a partial assignment as soon as a
\* constraint over the block fails; a constraint over a block only depends
\* on the variables of the block, so this is the set
\* {x \in SUBSET p.variables : \A c \in p.constraints : Satisfies(x, c)}.
WeekChoices(p, e, r) ==
    LET B == {v \in p.variables : v[1] = e /\ v[4] = r}
        local == LocalConstraints(p, B)
    IN  {x \in SUBSET B : \A c \in local : Satisfies(x, c)}

EmployeeChoices(p, e) ==
    LET B == {v \in p.variables : v[1] = e}
        local == LocalConstraints(p, B)
        weekly == [r \in WeeksOf(p) |-> WeekChoices(p, e, r)]
    IN  {x \in Combine(weekly, WeeksOf(p)) : \A c \in local : Satisfies(x, c)}

FeasibleAssignments(p) ==
    LET each == [e \in EmployeesOf(p) |-> EmployeeChoices(p, e)]
    IN  {x \in Combine(each, EmployeesOf(p)) :
            \A c \in p.constraints : Satisfies(x, c)}

RECURSIVE SumOver(_, _)
SumOver(f, S) ==
    IF S = {} THEN 0
    ELSE LET v == CHOOSE v \in S : TRUE IN f[v] + SumOver(f, S \ {v})

ObjectiveValue(p, x) == SumOver(p.objective, x)

OptimalAssignments(p) ==
    LET F == FeasibleAssignments(p)
        best == Max({ObjectiveValue(p, x) : x \in F})
    IN  IF F = {} THEN {} ELSE {x \in F : ObjectiveValue(p, x) = best}

\* When there is no feasible assignment the solver reports Infeasible and
\* the values it leaves in the variables are not determined by its
\* contract: all 0, or some variable at a positive value.
InfeasibleValues(p) == {{}} \cup {{v} : v \in p.variables}

SolverOutcomes(p) ==
    LET best == OptimalAssignments(p)
    IN  IF best # {}
        THEN {[status |-> "Optimal", values |-> x] : x \in best}
        ELSE {[status |-> "Infeasible", values |-> x] : x \in InfeasibleValues(p)}

(***************************************************************************)
(* solveProblem                                                            *)
(***************************************************************************)
RawKey(name) == [form |-> "raw", name |-> name, fields |-> <<>>]
TupleKey(t) == [form |-> "tuple", name |-> <<>>, fields |-> t]

\* without the test of line 265: every variable is stored
StoreAllVariables(dict, values) ==
    LET new == {RawKey(VarName(v)) : v \in prob.variables}
    IN  [k \in DOMAIN dict \cup new |-> IF k \in new THEN 1 ELSE dict[k]]

\* lines 264-266: self.allocations[v.name] = v.varValue for the variables
\* with a positive value
Store(dict, values) ==
    LET new == {RawKey(VarName(v)) : v \in values}
    IN  [k \in DOMAIN dict \cup new |-> IF k \in new THEN 1 ELSE dict[k]]

\* the solver is invoked a second time when it reports Infeasible
SolveProblemRetries ==
    /\ lastOp' = "solveProblem"
    /\ IF ~ prob.set
       THEN /\ raised' = Raise("AttributeError")
            /\ UNCHANGED <<prob, allocations, solves>>
       ELSE /\ raised' = NoError
            /\ \E o \in SolverOutcomes(prob) :
                   /\ prob' = [prob EXCEPT !.status = o.status,
                                            !.values = o.values]
                   /\ allocations' = Store(allocations, o.values)
                   /\ solves' = IF o.status = "Infeasible"
                                THEN solves + 2 ELSE solves + 1
    /\ stage' = IF stage = "setup" /\ raised'.kind = "none"
                THEN "solved" ELSE "off"
    /\ UNCHANGED <<employees, duties, shifts, rotations, bids, result, saved>>

SolveProblem ==
    /\ lastOp' = "solveProblem"
    /\ IF ~ prob.set
       THEN \* line 264: None has no attribute variables
            /\ raised' = Raise("AttributeError")
            /\ UNCHANGED <<prob, allocations, solves>>
       ELSE /\ solves' = solves + 1
            /\ raised' = NoError
            /\ \E o \in SolverOutcomes(prob) :
                   /\ prob' = [prob EXCEPT !.status = o.status,
                                            !.values = o.values]
                   /\ allocations' = Store(allocations, o.values)
    /\ stage' = IF stage = "setup" /\ raised'.kind = "none"
                THEN "solved" ELSE "off"
    /\ UNCHANGED <<employees, duties, shifts, rotations, bids, result, saved>>

(***************************************************************************)
(* cleanAllocations                                                        *)
(***************************************************************************)
\* lines 77-81: one row per key, the key split at ",_"
RowFields(k) == Split(k.name, <<",", "_">>)

\* the characters of "Allocation_\\(", line 92
PrefixChars == {"A", "l", "o", "c", "a", "t", "i", "n", "_", "\\", "("}

\* lines 92-99: the cleaned Employee, Duty, Shift and Week of a row
CleanRow(f) ==
    << Replace(Strip(Strip(f[1], PrefixChars), {"'"}), "_", " "),
       Replace(Strip(f[2], {"'"}), "_", " "),
       Strip(f[3], {"'"}),
       Replace(Strip(f[4], {"'", ")"}), "_", " ") >>

\* lines 102-106: the cleaned Employee, Duty and Shift of a bid key
CleanBidKey(k) ==
    << Strip(Replace(k[1], "-", " "), {"'"}),
       Strip(Replace(k[2], "-", " "), {"'"}),
       Strip(k[3], {"'"}) >>

\* lines 85-88 and 110-119: the Bid of a cleaned row: 0.0, overwritten by
\* every bid of positive weight whose cleaned key matches, in dict order
ReconciledBid(row) ==
    LET hits == {i \in DOMAIN bids :
                    /\ bids[i].value > 0
                    /\ CleanBidKey(bids[i].key) = <<row[1], row[2], row[3]>>}
    IN  IF hits = {} THEN 0 ELSE bids[Max(hits)].value

\* the bid keys cleansed in place: lines 102-106 applied to self.bids
CleanAllocationsCleansBidsInPlace ==
    /\ lastOp' = "cleanAllocations"
    /\ raised' = NoError
    /\ allocations' =
         LET rows == {CleanRow(RowFields(k)) :
                         k \in {k \in DOMAIN allocations : k.form = "raw"}}
         IN  [k \in {TupleKey(row) : row \in rows} |->
                 ReconciledBid(k.fields)]
    /\ bids' = [i \in DOMAIN bids |->
                   Entry(CleanBidKey(bids[i].key), bids[i].value)]
    /\ stage' = IF stage = "solved" THEN "cleaned" ELSE "off"
    /\ UNCHANGED <<employees, duties, shifts, rotations, prob, solves,
                   result, saved>>

CleanAllocations ==
    /\ lastOp' = "cleanAllocations"
    /\ IF \E k \in DOMAIN allocations : k.form = "tuple"
       THEN \* line 78: a tuple has no attribute split
            /\ raised' = Raise("AttributeError")
            /\ allocations' = allocations
       ELSE IF \E k \in DOMAIN allocations : Len(RowFields(k)) # 4
       THEN \* line 81: a row does not have 5 columns
            /\ raised' = Raise("ValueError")
            /\ allocations' = allocations
       ELSE /\ raised' = NoError
            /\ allocations' =
                 LET rows == {CleanRow(RowFields(k)) : k \in DOMAIN allocations}
                 IN  [k \in {TupleKey(row) : row \in rows} |->
                         ReconciledBid(k.fields)]
    /\ stage' = IF stage = "solved" /\ raised'.kind = "none"
                THEN "cleaned" ELSE "off"
    /\ UNCHANGED <<employees, duties, shifts, rotations, bids, prob, solves,
                   result, saved>>

(***************************************************************************)
(* The Scheduler objects the model starts from (Scheduler.__init__).       *)
(***************************************************************************)
\* two-word names, joined by sep: a space as in tests/test_scheduler.py, a
\* hyphen as main.createAllocations passes them, an underscore as in the
\* example of the module docstring
EmployeePool(sep) ==
    << <<"A", sep, "B">>, <<"C", sep, "D">>, <<"E", sep, "F">>,
       <<"G", sep, "H">> >>

DutyPool(sep) ==
    << <<"M", sep, "O">>, <<"S", sep, "B">>, <<"M", sep, "S">>,
       <<"P", sep, "Q">> >>

RotationPool(sep) ==
    << <<"W", sep, "1">>, <<"W", sep, "2">>, <<"W", sep, "3">>,
       <<"W", sep, "4">> >>

Prefix(s, n) == SubSeq(s, 1, n)

\* self.prob = None
NoProblem ==
    [set |-> FALSE, status |-> "NotSolved", variables |-> {},
     objective |-> EmptyDict, constraints |-> {}, values |-> {}]

\* keys outside the master lists: an unknown employee, duty, shift
UnknownEmployeeKey == << <<"Z">>, <<"M", "-", "O">>, Early >>
UnknownDutyKey == << <<"A", "-", "B">>, <<"X">>, Late >>
UnknownShiftKey == << <<"A", "-", "B">>, <<"M", "-", "O">>, <<"D", "a", "y">> >>

\* the bids dict of the keys of universe u selected by the index set S, in
\* the order of u; the weight of a key is fixed by its place in u
BidDict(u, S) ==
    LET idx == SelectSeq([i \in 1..Len(u) |-> i], LAMBDA i : i \in S)
    IN  [j \in DOMAIN idx |-> Entry(u[idx[j]], idx[j] % (MaxWeight + 1))]

\* main.createAllocations has not returned yet
NotReturned == [returned |-> FALSE, value |-> EmptyDict]

InitObject ==
    /\ prob = NoProblem
    /\ allocations = EmptyDict
    /\ lastOp = "init"
    /\ raised = NoError
    /\ stage = "new"
    /\ solves = 0
    /\ result = NotReturned
    /\ saved = FALSE

\* bid validation runs: any dict of at most MaxBids bids over the keys of the
\* master lists and the three unknown keys
InitBids ==
    /\ \E n \in 0..MaxBidEmployees : employees = Prefix(EmployeePool("-"), n)
    /\ \E n \in 0..MaxBidDuties : duties = Prefix(DutyPool("-"), n)
    /\ Len(employees) * Len(duties) <= MaxBidPairs
    /\ shifts = <<Early, Late, Night>>
    /\ rotations = Prefix(RotationPool("-"), 3)
    /\ LET u == <<UnknownEmployeeKey>> \o Product(employees, duties, shifts)
                 \o <<UnknownDutyKey, UnknownShiftKey>>
       IN  \E S \in SUBSET (1..Len(u)) :
               /\ Cardinality(S) <= MaxBids
               /\ bids = BidDict(u, S)
    /\ InitObject

NextBids == CompleteBids

SpecBids == InitBids /\ [][NextBids]_vars


\* the bids of one employee: on Early the weight early[j] for the j-th duty
\* (-1: no bid), on Late weight 1 for the last duty, on Night weight 1 for
\* the first duty
EmployeeBids(e, early) ==
    LET js == SelectSeq([j \in 1..Len(duties) |-> j], LAMBDA j : early[j] >= 0)
    IN  [i \in DOMAIN js |-> Entry(<<e, duties[js[i]], Early>>, early[js[i]])]
        \o <<Entry(<<e, duties[Len(duties)], Late>>, 1),
             Entry(<<e, duties[1], Night>>, 1)>>

RECURSIVE Concat(_)
Concat(ss) == IF ss = <<>> THEN <<>> ELSE Head(ss) \o Concat(Tail(ss))

\* scheduling runs: one naming style for all names, |employees| * |duties|
\* at most MaxPairs, as many weeks as shifts or one less
Init ==
    /\ \E sep \in {" ", "-", "_"} :
         /\ \E n \in 1..MaxPairs : employees = Prefix(EmployeePool(sep), n)
         /\ \E n \in 1..MaxPairs : duties = Prefix(DutyPool(sep), n)
         /\ shifts = <<Early, Late, Night>>
         /\ \E n \in {Len(shifts) - 1, Len(shifts)} :
                rotations = Prefix(RotationPool(sep), n)
    /\ Len(employees) * Len(duties) <= MaxPairs
    /\ \E early \in [1..Len(employees) -> [1..Len(duties) -> -1..MaxWeight]] :
         bids = Concat([i \in 1..Len(employees) |->
                           EmployeeBids(employees[i], early[i])])
    /\ InitObject

(***************************************************************************)
(* main.createAllocations and option 2 of main.main                        *)
(***************************************************************************)
\* the except block falls through to lines 54 and 58
ReturnEmptyFallsThrough ==
    /\ stage = "off"
    /\ lastOp \in {"completeBids", "setUpProblem", "solveProblem"}
    /\ lastOp' = "cleanAllocations"
    /\ result' = [returned |-> TRUE, value |-> allocations]
    /\ stage' = "returned"
    /\ UNCHANGED <<employees, duties, shifts, rotations, bids, prob,
                   allocations, raised, solves, saved>>

\* main.py lines 49-51: an exception of completeBids, setUpProblem or
\* solveProblem is caught and the empty dict is returned
ReturnEmpty ==
    /\ stage = "off"
    /\ lastOp \in {"completeBids", "setUpProblem", "solveProblem"}
    /\ result' = [returned |-> TRUE, value |-> EmptyDict]
    /\ stage' = "returned"
    /\ UNCHANGED <<employees, duties, shifts, rotations, bids, prob,
                   allocations, lastOp, raised, solves, saved>>

\* main.py line 58, after cleanAllocations at line 54 (outside the try
\* block: an exception of cleanAllocations is not caught, nothing returns)
ReturnAllocations ==
    /\ stage = "cleaned"
    /\ result' = [returned |-> TRUE, value |-> allocations]
    /\ stage' = "returned"
    /\ UNCHANGED <<employees, duties, shifts, rotations, bids, prob,
                   allocations, lastOp, raised, solves, saved>>

\* main.py lines 125-126: the CSV is written if there are allocations
SaveAllocations ==
    /\ stage = "returned"
    /\ saved' = (Cardinality(DOMAIN result.value) > 0)
    /\ stage' = "end"
    /\ UNCHANGED <<employees, duties, shifts, rotations, bids, prob,
                   allocations, lastOp, raised, solves, result>>

\* the orders of the list s
Orderings(s) ==
    {[i \in DOMAIN s |-> s[f[i]]] :
        f \in {g \in [DOMAIN s -> DOMAIN s] : \A i, j \in DOMAIN s :
                                                 g[i] = g[j] => i = j}}

\* main.py line 40: random.shuffle(employees), before the Scheduler is used
ShuffleEmployees ==
    /\ employees' \in Orderings(employees)
    /\ UNCHANGED <<duties, shifts, rotations, bids, prob, allocations,
                   lastOp, raised, stage, solves, result, saved>>

\* A scheduling run calls the four methods once each, in the order of the
\* module docstring, of main.createAllocations (lines 45-54) and of
\* test_SetUpAndSolveProblem_and_cleanAllocations; an exception ends the
\* calls.  createAllocations then returns and option 2 of main saves.
Next ==
    \/ stage = "new" /\ ShuffleEmployees
    \/ stage = "new" /\ CompleteBids
    \/ stage = "completed" /\ SetUpProblem
    \/ stage = "setup" /\ SolveProblem
    \/ stage = "solved" /\ CleanAllocations
    \/ ReturnEmpty
    \/ ReturnAllocations
    \/ SaveAllocations

Spec == Init /\ [][Next]_vars

\* The problem built for the employees in one order and another: the list is
\* shuffled and the bids completed and the problem built again, any number
\* of times.
NextShuffle ==
    \/ ShuffleEmployees
    \/ CompleteBids
    \/ SetUpProblem

SpecShuffle == Init /\ [][NextShuffle]_vars

\* the bids dict of the keys of u selected by S, every bid with a weight
\* of its own: its place in u
RankedBids(u, S) ==
    LET idx == SelectSeq([i \in 1..Len(u) |-> i], LAMBDA i : i \in S)
    IN  [j \in DOMAIN idx |-> Entry(u[idx[j]], idx[j])]

\* A Scheduler object used directly: any of the four methods, in any order
\* and any number of times.  The lists may be empty, the bids dict holds the
\* first keys of employees x duties x shifts, any number of them.
InitFree ==
    /\ \E n \in 0..MaxFreePairs : employees = Prefix(EmployeePool("-"), n)
    /\ \E n \in 0..MaxFreePairs : duties = Prefix(DutyPool("-"), n)
    /\ Len(employees) * Len(duties) <= MaxFreePairs
    /\ shifts \in {<<>>, <<Early, Late, Night>>}
    /\ \E n \in {0, Len(shifts)} : rotations = Prefix(RotationPool("-"), n)
    /\ LET u == Product(employees, duties, shifts)
       IN  \E n \in 0..Len(u) : bids = RankedBids(u, 1..n)
    /\ InitObject

NextFree ==
    \/ CompleteBids
    \/ SetUpProblem
    \/ solves < MaxSolves /\ SolveProblem
    \/ CleanAllocations

SpecFree == InitFree /\ [][NextFree]_vars

\* completeBids on a Scheduler whose shifts list holds any of the names of
\* ShiftNamePool, in the order of the pool; the bids are on any of the
\* (employee, duty, name) triples, names outside the shifts list included.
ShiftNamePool ==
    <<Early, Late, Night, <<"D", "a", "y">>, <<"S", "w", "i", "n", "g">>>>

Sublist(s, S) ==
    LET idx == SelectSeq([i \in 1..Len(s) |-> i], LAMBDA i : i \in S)
    IN  [j \in DOMAIN idx |-> s[idx[j]]]

InitShifts ==
    /\ \E n \in 0..MaxFreePairs : employees = Prefix(EmployeePool("-"), n)
    /\ \E n \in 0..MaxFreePairs : duties = Prefix(DutyPool("-"), n)
    /\ Len(employees) * Len(duties) <= MaxFreePairs
    /\ \E S \in SUBSET (1..MaxShiftNames) : shifts = Sublist(ShiftNamePool, S)
    /\ rotations = Prefix(RotationPool("-"), 3)
    /\ LET u == Product(employees, duties,
                        Prefix(ShiftNamePool, MaxShiftNames))
       IN  \E S \in SUBSET (1..Len(u)) : bids = RankedBids(u, S)
    /\ InitObject

NextShifts == CompleteBids

SpecShifts == InitShifts /\ [][NextShifts]_vars

(***************************************************************************)
(* DbUtility.createRandomBids (scheduleDb.py).  employees holds the rows   *)
(* of the employee table, duties and shifts the flat lists read from the   *)
(* duty and shift tables, bids the dict the last call returned.            *)
(***************************************************************************)
DigitChars == <<"0", "1", "2", "3", "4", "5", "6", "7", "8", "9">>

\* str(n) of an int n >= 0
RECURSIVE IntStr(_)
IntStr(n) ==
    IF n < 10 THEN <<DigitChars[n + 1]>>
    ELSE IntStr(n \div 10) \o <<DigitChars[(n % 10) + 1]>>

\* rows of the employee table: employee_id is the primary key, the names
\* need not be distinct
EmployeeTable ==
    << [employee_id |-> 1, first_name |-> <<"A">>, last_name |-> <<"B">>],
       [employee_id |-> 2, first_name |-> <<"A">>, last_name |-> <<"B">>],
       [employee_id |-> 13, first_name |-> <<"C">>, last_name |-> <<"D">>],
       [employee_id |-> 14, first_name |-> <<"E">>, last_name |-> <<"F">>] >>

\* the employee of a key without the employee_id
EmployeeKeyWithoutId(employee) ==
    employee.first_name \o <<" ">> \o employee.last_name

\* line 207: f"{employee.employee_id} {employee.first_name}
\* {employee.last_name}"
EmployeeKey(employee) ==
    IntStr(employee.employee_id) \o <<" ">> \o employee.first_name
        \o <<" ">> \o employee.last_name

\* dict.update, line 208: an entry with a key of the dict replaces the
\* value in place, another one is added at the end
RECURSIVE Update(_, _)
Update(dict, entries) ==
    IF entries = <<>> THEN dict
    ELSE LET h == Head(entries)
         IN  Update(IF h.key \in BidKeys(dict)
                    THEN [i \in DOMAIN dict |->
                             IF dict[i].key = h.key THEN h ELSE dict[i]]
                    ELSE Append(dict, h),
                    Tail(entries))

\* lines 206-207: the bids of the employee at index e, choice[<<e, s>>]
\* being the index random.choice(duties) picks for the shift at index s
EmpBids(e, choice) ==
    Update(<<>>,
           [s \in DOMAIN shifts |->
               Entry(<<EmployeeKey(employees[e]), duties[choice[<<e, s>>]],
                       shifts[s]>>, 1)])

\* lines 201-210
RECURSIVE RandomBids(_, _)
RandomBids(n, choice) ==
    IF n = 0 THEN <<>>
    ELSE Update(RandomBids(n - 1, choice), EmpBids(n, choice))

CreateRandomBids ==
    /\ lastOp' = "createRandomBids"
    /\ IF employees # <<>> /\ shifts # <<>> /\ duties = <<>>
       THEN \* line 206: random.choice of an empty list
            /\ raised' = Raise("IndexError")
            /\ bids' = bids
       ELSE /\ raised' = NoError
            /\ \E choice \in [(DOMAIN employees) \X (DOMAIN shifts)
                                -> DOMAIN duties] :
                   bids' = RandomBids(Len(employees), choice)
    /\ UNCHANGED <<employees, duties, shifts, rotations, prob, allocations,
                   stage, solves, result, saved>>

InitRandomBids ==
    /\ \E n \in 0..MaxDbEmployees : employees = Prefix(EmployeeTable, n)
    /\ \E n \in 0..MaxDbDuties : duties = Prefix(DutyPool(" "), n)
    /\ \E S \in SUBSET (1..MaxShiftNames) : shifts = Sublist(ShiftNamePool, S)
    /\ Len(employees) * Len(shifts) <= MaxChoices
    /\ rotations = Prefix(RotationPool(" "), 3)
    /\ bids = <<>>
    /\ InitObject

\* one call on each content of the tables: the call reads the tables and
\* builds a new dict, it keeps nothing of a call before it
NextRandomBids == lastOp = "init" /\ CreateRandomBids

SpecRandomBids == InitRandomBids /\ [][NextRandomBids]_vars

\* A Scheduler whose problem is built and solved directly, any number of
\* times: lists of any lengths, empty ones included, with at most
\* MaxVariables decision variables, and a bid for every triple.
InitBuild ==
    /\ \E n \in 0..MaxPairs : employees = Prefix(EmployeePool("-"), n)
    /\ \E n \in 0..MaxPairs : duties = Prefix(DutyPool("-"), n)
    /\ \E n \in 0..3 : shifts = Prefix(<<Early, Late, Night>>, n)
    /\ \E n \in 0..3 : rotations = Prefix(RotationPool("-"), n)
    /\ Len(employees) * Len(duties) * Len(shifts) * Len(rotations)
           <= MaxVariables
    /\ LET u == Product(employees, duties, shifts)
       IN  bids = RankedBids(u, 1..Len(u))
    /\ InitObject

NextBuild ==
    \/ SetUpProblem
    \/ solves < MaxSolves /\ SolveProblem

SpecBuild == InitBuild /\ [][NextBuild]_vars

(***************************************************************************)
(* Properties of a scheduling run, checked under Spec.                     *)
(***************************************************************************)
\* the run is over and the solver returned a solution
Done == stage = "cleaned" /\ prob.status = "Optimal"

\* the allocation rows (Employee, Duty, Shift, Week)
Rows == {k.fields : k \in {k \in DOMAIN allocations : k.form = "tuple"}}

Normalized == \A k \in DOMAIN allocations : k.form = "tuple"

\* C1: in the allocation of a run, every employee has exactly one
\* (duty, shift) pair in every rotation week: there are as many employee
\* names and week names in the rows as employees and weeks, and every
\* employee name has exactly one row in every week.
C1_OnePairPerEmployeeWeek ==
    Done =>
        /\ Normalized
        /\ Cardinality({a[1] : a \in Rows}) = Len(employees)
        /\ Cardinality({a[4] : a \in Rows}) = Len(rotations)
        /\ \A e \in {a[1] : a \in Rows}, w \in {a[4] : a \in Rows} :
               Cardinality({a \in Rows : a[1] = e /\ a[4] = w}) = 1

\* two employees, three weeks: six rows
C1_Witness ==
    /\ Done
    /\ Len(employees) = 2 /\ Len(rotations) = 3
    /\ Cardinality(Rows) = 6

\* C2: in the allocation of a run, every employee has exactly one
\* (duty, week) pair for every shift of the shifts list.
C2_OnePairPerEmployeeShift ==
    Done =>
        /\ Normalized
        /\ Cardinality({a[1] : a \in Rows}) = Len(employees)
        /\ \A e \in {a[1] : a \in Rows}, sh \in Range(shifts) :
               Cardinality({a \in Rows : a[1] = e /\ a[3] = sh}) = 1

\* one employee, two duties: Early, Late and Night once each, on two duties
C2_Witness ==
    /\ Done
    /\ Len(duties) = 2
    /\ {a[3] : a \in Rows} = {Early, Late, Night}
    /\ Cardinality({a[2] : a \in Rows}) = 2

\* C3: in the allocation of a run, no (duty, shift, week) triple has more
\* than one employee; every employee's rows are there.
C3_NoDoubleBooking ==
    Done =>
        /\ Normalized
        /\ Cardinality(Rows) = Len(employees) * Len(rotations)
        /\ \A a, b \in Rows :
               (a[2] = b[2] /\ a[3] = b[3] /\ a[4] = b[4]) => a = b

\* two employees on the same duty and shift, in different weeks
C3_Witness ==
    /\ Done
    /\ \E a, b \in Rows :
           a[1] # b[1] /\ a[2] = b[2] /\ a[3] = b[3] /\ a[4] # b[4]

\* the three constraints, read on a set y of (e, d, sh, r) quadruples
SatisfiesTheThreeConstraints(y) ==
    /\ y \subseteq Variables
    /\ \A e \in Range(employees), r \in Range(rotations) :
           Cardinality({v \in y : v[1] = e /\ v[4] = r}) = 1
    /\ \A e \in Range(employees), sh \in Range(shifts) :
           Cardinality({v \in y : v[1] = e /\ v[3] = sh}) = 1
    /\ \A d \in Range(duties), sh \in Range(shifts), r \in Range(rotations) :
           Cardinality({v \in y : v[2] = d /\ v[3] = sh /\ v[4] = r}) <= 1

BidWeight(v) == BidValue(bids, <<v[1], v[2], v[3]>>)

TotalBidWeight(y) == SumOver([v \in y |-> BidWeight(v)], y)

ReconciledTotal == SumOver(allocations, DOMAIN allocations)

\* C4: after a run the sum of the reconciled weights of the allocation rows
\* is at least the sum of the bid weights of any assignment that satisfies
\* the three constraints.
C4_Optimality ==
    Done =>
        \A y \in FeasibleAssignments(prob) :
            SatisfiesTheThreeConstraints(y) => ReconciledTotal >= TotalBidWeight(y)

\* the row that cleanAllocations makes of the variable v
RowOf(v) == CleanRow(RowFields(RawKey(VarName(v))))

\* C5: after a run, the row of every allocated (e, d, sh, w) carries the
\* weight of the bid of (e, d, sh) when that weight is positive, and 0.0
\* otherwise.
C5_Reconciliation ==
    Done =>
        \A v \in prob.values :
            /\ TupleKey(RowOf(v)) \in DOMAIN allocations
            /\ allocations[TupleKey(RowOf(v))] = BidWeight(v)

\* C11: when the solver reports Infeasible, solveProblem leaves allocations
\* empty, createAllocations returns nothing and no CSV is written.
C11_InfeasibleYieldsNothing ==
    prob.status = "Infeasible" =>
        /\ DOMAIN allocations = {}
        /\ DOMAIN result.value = {}
        /\ ~ saved

\* an exception of completeBids or setUpProblem was raised in the run
Aborted ==
    /\ raised.kind # "none"
    /\ lastOp \in {"completeBids", "setUpProblem"}

\* C12: once completeBids or setUpProblem has raised in a run, no method of
\* the Scheduler is called any more (the solver is not invoked,
\* cleanAllocations does not run), what createAllocations returns is empty
\* and the allocations CSV is not written.
C12_FailureAbortsRun ==
    [][Aborted =>
          /\ lastOp' = lastOp
          /\ solves' = 0
          /\ DOMAIN allocations' = {}
          /\ DOMAIN result'.value = {}
          /\ ~ saved']_vars

\* the run of a bids dict that completeBids rejects has ended: the empty
\* dict was returned, nothing was solved, nothing saved
C12_Witness ==
    /\ stage = "end"
    /\ Aborted
    /\ result.returned
    /\ solves = 0

\* C16: after a run in which the solver returned a solution, allocations
\* has exactly |employees| * |rotations| rows, one for every variable the
\* solver set to 1.
C16_RowCount ==
    Done =>
        /\ Cardinality(DOMAIN allocations) = Len(employees) * Len(rotations)
        /\ Cardinality(DOMAIN allocations) = Cardinality(prob.values)
        /\ Normalized

\* one employee with underscores in the names, two duties, three weeks:
\* three rows
C16_Witness ==
    /\ Done
    /\ employees = Prefix(EmployeePool("_"), 1)
    /\ Len(duties) = 2
    /\ Cardinality(DOMAIN allocations) = 3

\* C18: a run invokes the solver at most once; when the run has returned,
\* the solver was invoked exactly once if neither completeBids nor
\* setUpProblem raised, and not at all otherwise; nothing invokes it again
\* after a solve, whatever its outcome.
C18_OneSolvePerRun ==
    /\ solves <= 1
    /\ result.returned => (solves = 1 <=> ~ Aborted)
    /\ solves = 1 => stage \in {"solved", "cleaned", "returned", "end"}

\* a run that ended after an Infeasible solve: one invocation, no retry
C18_Witness ==
    /\ stage = "end"
    /\ prob.status = "Infeasible"
    /\ solves = 1

\* the optimal objective value of p, -1 when there is no feasible assignment
OptimumOf(p) ==
    LET best == OptimalAssignments(p)
    IN  IF best = {} THEN -1
        ELSE ObjectiveValue(p, CHOOSE x \in best : TRUE)

\* C21: when setUpProblem builds the problem again after the employees list
\* was shuffled (same duties, shifts, weeks and bids), the set of feasible
\* assignments and the optimal objective value are those of the problem
\* built before.  Checked under SpecShuffle.
C21_ShuffleKeepsFeasibility ==
    [][(/\ lastOp' = "setUpProblem"
        /\ prob.variables # {}
        /\ raised'.kind = "none")
       => \/ prob' = prob
          \/ /\ FeasibleAssignments(prob') = FeasibleAssignments(prob)
             /\ OptimumOf(prob') = OptimumOf(prob)]_vars

\* the problem of two employees was built with the employees in the other
\* order than the pool's
C21_Witness ==
    /\ lastOp = "setUpProblem"
    /\ prob.variables # {}
    /\ Len(employees) = 2
    /\ \E sep \in {" ", "-", "_"} : employees[1] = EmployeePool(sep)[2]

(***************************************************************************)
(* Properties of completeBids, checked under SpecBids.                     *)
(***************************************************************************)
KeyInLists(k) ==
    /\ k[1] \in Range(employees)
    /\ k[2] \in Range(duties)
    /\ k[3] \in Range(shifts)

KeysOf(b, e) == {k \in BidKeys(b) : k[1] = e}

\* employee e has the deficiency of category c in the bids dict b
HasDeficiency(b, c, e) ==
    CASE c = "less than 3 bids" -> Cardinality(KeysOf(b, e)) < 3
      [] c = "without an Early bid" -> ~ \E k \in KeysOf(b, e) : k[3] = Early
      [] c = "without a Late bid" -> ~ \E k \in KeysOf(b, e) : k[3] = Late
      [] c = "without a Night bid" -> ~ \E k \in KeysOf(b, e) : k[3] = Night

Completed == lastOp = "completeBids" /\ raised.kind = "none"

\* C6: after completeBids returns, the keys of bids are exactly
\* employees x duties x shifts, one entry each, |E|*|D|*|S| entries in all.
C6_CompleteKeySet ==
    Completed =>
        /\ BidKeys(bids) = Range(employees) \X Range(duties) \X Range(shifts)
        /\ Len(bids) = Len(employees) * Len(duties) * Len(shifts)
        /\ \A i, j \in DOMAIN bids : bids[i].key = bids[j].key => i = j

\* two employees, two duties: 6 bids completed to 12
C6_Witness ==
    /\ Completed
    /\ Len(employees) = 2 /\ Len(duties) = 2
    /\ Len(bids) = 12
    /\ \E i \in DOMAIN bids : bids[i].value = 0 /\ i > 6

\* C7: with every key inside the master lists, completeBids raises the
\* incorrect-bids error exactly when some employee of the list has fewer
\* than 3 entries or lacks an Early, a Late or a Night entry.
C7_InsufficientIffDeficient ==
    [][(lastOp' = "completeBids" /\ \A k \in BidKeys(bids) : KeyInLists(k))
        => ((raised'.what = "incorrect bids")
             <=> \E e \in Range(employees), c \in Categories :
                     HasDeficiency(bids, c, e))]_vars

\* the boundary: every employee has exactly 3 bids, one per shift, and the
\* call passed (the first 3 entries of the completed dict are the bids of
\* the first employee, weights fixed by BidDict)
C7_Witness ==
    /\ Completed
    /\ Len(employees) = 2 /\ Len(duties) = 2
    /\ Cardinality({i \in DOMAIN bids : bids[i].value > 0}) >= 3
    /\ Cardinality({i \in 1..6 : i \in DOMAIN bids
                                   /\ bids[i].key[1] = employees[1]}) = 3

\* C8: the report lists, under each of its four categories, exactly the
\* employees that have that deficiency.
Listed(r, c, e) == c \in DOMAIN r /\ e \in Range(r[c])

C8_ReportAggregated ==
    [][(lastOp' = "completeBids" /\ raised'.what = "incorrect bids")
        => /\ DOMAIN raised'.report \subseteq Categories
           /\ \A c \in Categories :
                  /\ \A e \in Range(employees) :
                         Listed(raised'.report, c, e)
                             <=> HasDeficiency(bids, c, e)
                  /\ c \in DOMAIN raised'.report =>
                         Range(raised'.report[c]) \subseteq Range(employees)]_vars

\* the first employee lacks only a Night bid (and so has 2 bids), the second
\* employee is complete: the report names the first one under both
\* categories and nobody else
C8_Witness ==
    /\ lastOp = "completeBids" /\ raised.what = "incorrect bids"
    /\ Len(employees) = 2
    /\ DOMAIN raised.report = {"less than 3 bids", "without a Night bid"}
    /\ raised.report["less than 3 bids"] = <<employees[1]>>
    /\ raised.report["without a Night bid"] = <<employees[1]>>

\* C9: completeBids raises the invalid-key error exactly when some key of
\* bids names an employee, duty or shift outside its master list.
C9_InvalidKeyIffOutside ==
    [][lastOp' = "completeBids"
        => ((raised'.what = "invalid keys")
             <=> \E k \in BidKeys(bids) : ~ KeyInLists(k))]_vars

\* the only unknown component is the shift
C9_Witness ==
    /\ lastOp = "completeBids" /\ raised.what = "invalid keys"
    /\ raised.key[1] \in Range(employees)
    /\ raised.key[2] \in Range(duties)
    /\ raised.key[3] \notin Range(shifts)
    /\ \A k \in BidKeys(bids) : k # raised.key => KeyInLists(k)

\* C10: a completeBids call that raises leaves bids as it was.
C10_ValidationSideEffectFree ==
    [][(lastOp' = "completeBids" /\ raised'.kind # "none")
        => bids' = bids]_vars

\* a raising call on a dict that completion would have extended
C10_Witness ==
    /\ lastOp = "completeBids" /\ raised.kind = "ValueError"
    /\ bids # <<>>
    /\ Len(bids) < Len(employees) * Len(duties) * Len(shifts)

\* a second completeBids call would change bids
SecondCallChangesBids == ENABLED (CompleteBids /\ bids' # bids)

\* C13 as claimed: after completeBids on any bids dict, a second call
\* yields the same bids as the first, and bids has exactly |E|*|D|*|S|
\* entries.
C13_CompletionIdempotentAlways ==
    lastOp = "completeBids" =>
        /\ ~ SecondCallChangesBids
        /\ Len(bids) = Len(employees) * Len(duties) * Len(shifts)

\* C13, amended: after completeBids on any bids dict, a second call yields
\* the same bids as the first; when the call did not raise, bids has
\* exactly |E|*|D|*|S| entries.
C13_CompletionIdempotent ==
    lastOp = "completeBids" =>
        /\ ~ SecondCallChangesBids
        /\ raised.kind = "none" =>
               Len(bids) = Len(employees) * Len(duties) * Len(shifts)

\* one employee, two duties, a partial dict completed to 6 entries: the
\* last entry is a no-bid that the call appended
C13_Witness ==
    /\ Completed
    /\ Len(employees) = 1
    /\ Len(bids) = 6
    /\ bids[6].key # AllCombinations[6]
    /\ ~ SecondCallChangesBids

\* C14: completeBids leaves every entry that was in bids before the call
\* as it was, and every entry it adds has a new key and the weight 0.0.
C14_CompletionFrame ==
    [][lastOp' = "completeBids" =>
          /\ Len(bids') >= Len(bids)
          /\ \A i \in DOMAIN bids : bids'[i] = bids[i]
          /\ \A i \in DOMAIN bids' \ DOMAIN bids :
                 /\ bids'[i].value = 0
                 /\ bids'[i].key \notin BidKeys(bids)]_vars

\* a completed dict with a bid of weight 2 kept and more entries than
\* bids of the caller (at most MaxBids)
C14_Witness ==
    /\ Completed
    /\ Len(bids) > MaxBids
    /\ \E i \in DOMAIN bids : bids[i].value = 2

\* C15: after a successful completeBids every employee has at least 3
\* entries and at least one entry for each of Early, Late and Night, and a
\* second completeBids call does not raise.
C15_CoverageAfterCompletion ==
    Completed =>
        /\ \A e \in Range(employees) :
               /\ BidCount(e) >= MinBids
               /\ \A sh \in {Early, Late, Night} : ShiftBidCount(e, sh) >= 1
        /\ ~ ENABLED (CompleteBids /\ raised'.kind # "none")

\* two employees with exactly 3 bids each, one duty: nothing to add
C15_Witness ==
    /\ Completed
    /\ Len(employees) = 2
    /\ Len(duties) = 1
    /\ \A e \in Range(employees) : BidCount(e) = MinBids

(***************************************************************************)
(* Properties of a Scheduler used directly, checked under SpecFree.        *)
\* C30: in an incorrect-bids report every employee listed with fewer than 3
\* bids is also listed as lacking an Early, a Late or a Night bid; an
\* employee with a bid for each of the three shifts is not listed with
\* fewer than 3 bids.
C30_TooFewImpliesMissingShift ==
    [][(lastOp' = "completeBids" /\ raised'.what = "incorrect bids")
        => \A e \in Range(employees) :
               /\ Listed(raised'.report, "less than 3 bids", e)
                    => \E c \in Categories \ {"less than 3 bids"} :
                           Listed(raised'.report, c, e)
               /\ (\A sh \in {Early, Late, Night} :
                       \E k \in KeysOf(bids, e) : k[3] = sh)
                    => ~ Listed(raised'.report, "less than 3 bids", e)]_vars

\* the first employee has exactly one bid per shift and is in no list; the
\* second has no bid at all and is in all four
C30_Witness ==
    /\ lastOp = "completeBids" /\ raised.what = "incorrect bids"
    /\ Len(employees) = 2
    /\ Cardinality(KeysOf(bids, employees[1])) = 3
    /\ DOMAIN raised.report = Categories
    /\ \A c \in Categories : raised.report[c] = <<employees[2]>>

(***************************************************************************)
AnyListEmpty ==
    \/ employees = <<>>
    \/ duties = <<>>
    \/ shifts = <<>>
    \/ rotations = <<>>

\* C17: setUpProblem raises when one of the employees, duties, shifts and
\* rotations lists is empty, and when the bids dict lacks the key of some
\* (employee, duty, shift) triple.
C17_SetUpFailsOnBadInput ==
    [][(/\ lastOp' = "setUpProblem"
        /\ \/ AnyListEmpty
           \/ \E k \in Range(AllCombinations) : k \notin BidKeys(bids))
       => raised'.kind # "none"]_vars

\* C19: a cleanAllocations call right after a cleanAllocations call that
\* normalized allocations completes and leaves allocations as it is.
C19_CleanIdempotent ==
    [][(/\ lastOp = "cleanAllocations"
        /\ raised.kind = "none"
        /\ lastOp' = "cleanAllocations")
       => /\ raised'.kind = "none"
          /\ allocations' = allocations]_vars

\* bids has one entry for every triple of employees x duties x shifts, as
\* completeBids leaves it
BidsComplete ==
    /\ BidKeys(bids) = Range(AllCombinations)
    /\ Len(bids) = Len(AllCombinations)

\* C20: with the bids completed, no setUpProblem, solveProblem or
\* cleanAllocations call, in any order and any number of times, adds,
\* removes or changes an entry of bids.
C20_BidsReadOnlyAfterCompletion ==
    [][(/\ BidsComplete
        /\ lastOp' \in {"setUpProblem", "solveProblem", "cleanAllocations"})
       => bids' = bids]_vars

\* completeBids succeeded, then setUpProblem, solveProblem and
\* cleanAllocations ran; the three bids are as they were
C20_Witness ==
    /\ stage = "cleaned"
    /\ BidsComplete
    /\ bids = RankedBids(AllCombinations, 1..3)
    /\ prob.status = "Optimal"
    /\ DOMAIN allocations # {}

\* C25: in every state reached by completeBids, setUpProblem, solveProblem
\* and cleanAllocations calls in any order, the keys of allocations are all
\* raw variable names or all (Employee, Duty, Shift, Week) tuples.
C25_SingleKeyForm ==
    \A k1, k2 \in DOMAIN allocations : k1.form = k2.form

\* C26: a setUpProblem call that raises leaves prob as it was before the
\* call.
C26_FailedSetUpKeepsProb ==
    [][(lastOp' = "setUpProblem" /\ raised'.kind # "none")
       => prob' = prob]_vars

\* C27: solveProblem on a Scheduler without a problem (setUpProblem never
\* called) does not invoke the solver, raises nothing and leaves
\* allocations unchanged.
C27_SolveWithoutProblemIsNoOp ==
    [][(~ prob.set /\ lastOp' = "solveProblem")
       => /\ raised'.kind = "none"
          /\ solves' = solves
          /\ allocations' = allocations]_vars

(***************************************************************************)
(* Properties of the problem setUpProblem builds, checked under SpecBuild. *)
(***************************************************************************)
\* C22: with more employees than (duty, shift) slots in a week and at least
\* one week, the problem setUpProblem built has no feasible assignment (and
\* the solver reports Infeasible).
C22_MoreEmployeesThanSlots ==
    (/\ prob.set
     /\ Len(employees) > Len(duties) * Len(shifts)
     /\ Len(rotations) >= 1)
    => /\ FeasibleAssignments(prob) = {}
       /\ prob.status \in {"NotSolved", "Infeasible"}

\* two employees, one duty, one shift: two variables per week, both
\* employees need the one slot; solved
C22_Witness ==
    /\ Len(employees) = 2
    /\ Len(duties) = 1
    /\ Len(shifts) = 1
    /\ Len(rotations) >= 1
    /\ prob.status = "Infeasible"

\* C24: after a solveProblem call, whatever setUpProblem and solveProblem
\* calls came before, allocations holds exactly the variables the solver
\* has just set to 1 (stated for the solves that found an optimum, where
\* the values are those of one optimal solution).
C24_OnlyLatestSolve ==
    (/\ lastOp = "solveProblem"
     /\ raised.kind = "none"
     /\ prob.status = "Optimal") =>
        DOMAIN allocations = {RawKey(VarName(v)) : v \in prob.values}

\* C28: with employees and a number of weeks that differs from the number
\* of shifts, setUpProblem raises nothing and the problem it built has no
\* feasible assignment (the solver reports Infeasible).
C28_WeeksDifferFromShifts ==
    (employees # <<>> /\ Len(rotations) # Len(shifts))
    => /\ lastOp = "setUpProblem" => raised.kind = "none" /\ prob.set
       /\ prob.set => /\ FeasibleAssignments(prob) = {}
                      /\ prob.status \in {"NotSolved", "Infeasible"}

\* one employee, one duty, two shifts and three weeks, with variables:
\* built without an exception, solved, Infeasible
C28_Witness ==
    /\ Len(employees) = 1
    /\ Len(duties) = 1
    /\ Len(shifts) = 2
    /\ Len(rotations) = 3
    /\ raised.kind = "none"
    /\ prob.status = "Infeasible"

(***************************************************************************)
(* completeBids and the names of the shifts list, checked under            *)
(* SpecShifts.                                                             *)
(***************************************************************************)
\* C29: the coverage check of completeBids goes by the names Early, Late
\* and Night, not by the members of the shifts list: with an employee and
\* a shifts list that lacks one of the three names the call raises for
\* every bid set; with valid keys the call passes exactly when every
\* employee has 3 bids, on whatever shifts, and a bid on each of the three
\* names, and the report lists an employee with fewer than 3 bids by the
\* count of all their bids and under a missing name by the bids on that
\* name alone.
C29_CoverageByLiteralNames ==
    [][lastOp' = "completeBids"
        => /\ (employees # <<>>
                  /\ ~ ({Early, Late, Night} \subseteq Range(shifts)))
                => raised'.kind = "ValueError"
           /\ (\A k \in BidKeys(bids) : KeyInLists(k))
                => /\ raised'.kind = "none"
                        <=> \A e \in Range(employees) :
                                /\ Cardinality(KeysOf(bids, e)) >= 3
                                /\ \A sh \in {Early, Late, Night} :
                                       \E k \in KeysOf(bids, e) : k[3] = sh
                   /\ raised'.what = "incorrect bids"
                        => \A c \in Categories, e \in Range(employees) :
                               Listed(raised'.report, c, e)
                                   <=> HasDeficiency(bids, c, e)]_vars

\* a shifts list without Night, every key valid, one of the bids on
\* another name: the employee has 3 bids and is only reported as lacking
\* a Night bid
C29_Witness ==
    /\ lastOp = "completeBids" /\ raised.what = "incorrect bids"
    /\ Night \notin Range(shifts)
    /\ \E i \in DOMAIN bids : bids[i].key[3] \notin {Early, Late, Night}
    /\ DOMAIN raised.report = {"without a Night bid"}

(***************************************************************************)
(* createRandomBids, checked under SpecRandomBids.                         *)
(***************************************************************************)
\* the entries of the dict b of employee e on shift sh
BidsOn(b, e, sh) ==
    {i \in DOMAIN b : b[i].key[1] = EmployeeKey(e) /\ b[i].key[3] = sh}

\* C23 as stated: createRandomBids returns a dict with one bid of weight 1
\* per employee and shift, on a duty of the duties list, |employees| *
\* |shifts| entries in all, and with exactly one Early, one Late and one
\* Night bid for every employee.
C23_OneBidPerEmployeeAndShiftAlways ==
    lastOp = "createRandomBids" =>
        /\ raised.kind = "none"
        /\ Len(bids) = Len(employees) * Len(shifts)
        /\ \A i \in DOMAIN bids :
               bids[i].value = 1 /\ bids[i].key[2] \in Range(duties)
        /\ \A e \in Range(employees) :
               /\ \A sh \in Range(shifts) :
                      Cardinality(BidsOn(bids, e, sh)) = 1
               /\ \A sh \in {Early, Late, Night} :
                      Cardinality(BidsOn(bids, e, sh)) = 1

\* C23, amended: createRandomBids raises IndexError exactly when there is
\* an employee and a shift but no duty; otherwise it returns a dict with
\* one bid of weight 1 per employee and shift of the shift table, on a duty
\* of the duties list, |employees| * |shifts| entries in all, and so with
\* exactly one Early, one Late and one Night bid for every employee when
\* the shift table holds these three names.
C23_OneBidPerEmployeeAndShift ==
    lastOp = "createRandomBids" =>
        /\ raised.kind \in {"none", "IndexError"}
        /\ raised.kind = "IndexError"
             <=> (employees # <<>> /\ shifts # <<>> /\ duties = <<>>)
        /\ raised.kind = "none" =>
             /\ Len(bids) = Len(employees) * Len(shifts)
             /\ \A i \in DOMAIN bids :
                    bids[i].value = 1 /\ bids[i].key[2] \in Range(duties)
             /\ \A e \in Range(employees) :
                    /\ \A sh \in Range(shifts) :
                           Cardinality(BidsOn(bids, e, sh)) = 1
                    /\ {Early, Late, Night} \subseteq Range(shifts) =>
                           \A sh \in {Early, Late, Night} :
                               Cardinality(BidsOn(bids, e, sh)) = 1

\* two employees of the same name, two duties, the three shifts: 6 bids,
\* both employees on the same duty for the Early shift, both duties chosen
C23_Witness ==
    /\ lastOp = "createRandomBids" /\ raised.kind = "none"
    /\ Len(employees) = 2 /\ Len(duties) = 2
    /\ shifts = <<Early, Late, Night>>
    /\ Len(bids) = 6
    /\ bids[1].key[2] = bids[4].key[2]
    /\ {bids[i].key[2] : i \in DOMAIN bids} = Range(duties)
====
